---- MODULE Spec2Model ----
(***************************************************************************)
(* State machine of iNodeSenseBot.py: the monitoring loop                  *)
(* (monitor_changes), the /start handler (cmd_start) and the daily report  *)
(* scheduler (scheduler), over the module-level state they share.          *)
(*                                                                         *)
(* Time is the integer number of seconds since local midnight of day 0.    *)
(* A status document is a record: `keys` is the set of sections present in *)
(* the JSON object, `dinputs` and `sensors` are the lists of the sections  *)
(* (empty when the section is absent) and `routput` is a record with its   *)
(* own `keys`.  Python's None is the string None.  A dict in insertion     *)
(* order is a sequence of records with distinct names.                     *)
(***************************************************************************)
EXTENDS Integers, Sequences, FiniteSets, TLC

VARIABLES
    now,                        \* wall clock, seconds since midnight of day 0
    boot,                       \* the clock when main() created the tasks
    previous_sensors_state,     \* line 75
    previous_routput_state,     \* line 76
    bot_initialized,            \* line 77
    report_sent_status,         \* line 78
    dinput_alarm_start_times,   \* line 79
    mon_pc,                     \* monitor_changes: "sleep" or "fetch" (awaiting fetch_json)
    mon_wake,                   \* the clock at which monitor_changes' sleep ends
    start_pc,                   \* cmd_start: "idle" or "fetch" (awaiting fetch_json)
    sched_wake,                 \* the clock at which scheduler's sleep ends
    tick,                       \* monitor_changes: the locals of an iteration suspended in bot.send_message
    info_pc,                    \* cmd_get_info: "idle", "fetch" or "reply"
    info_reply,                 \* observer: the reply cmd_get_info is sending
    cam_pc,                     \* cmd_camera: "idle" or "send" (awaiting bot.send_photo)
    img_file,                   \* whether img/img.jpeg exists
    received,                   \* observer: per command, the chat of the last message that carried it
    parse_in,                   \* a document handed to parse_sensors_data
    parse_out,                  \* what parse_sensors_data returned for it
    parse_done,                 \* whether parse_sensors_data has returned
    mon_result,                 \* observer: what the last monitor fetch returned
    mon_time,                   \* observer: the clock of the last processed poll
    alerts,                     \* observer: bot.send_message calls of the last processed poll
    runs,                       \* observer: per binary input, its current run of alarm observations
    reports                     \* observer: send_daily_report calls and their outcome

vars == << now, boot, previous_sensors_state, previous_routput_state,
           bot_initialized, report_sent_status, dinput_alarm_start_times,
           mon_pc, mon_wake, start_pc, sched_wake, tick, info_pc, info_reply, cam_pc, img_file,
           received, parse_in, parse_out, parse_done,
           mon_result, mon_time, alerts, runs, reports >>

monitorVars == << previous_sensors_state, previous_routput_state, bot_initialized,
                  dinput_alarm_start_times, mon_pc, mon_wake, start_pc, tick,
                  mon_result, mon_time, alerts, runs >>

schedVars == << report_sent_status, sched_wake, reports >>

cmdVars == << info_pc, info_reply, cam_pc, img_file, received >>

parseVars == << parse_in, parse_out, parse_done >>

----------------------------------------------------------------------------
(* Program constants *)

POLL_INTERVAL == 3

\* timedelta(minutes=5), in seconds
ALARM_AFTER == 300

ALARM_REPEAT == 300

SCHED_SLEEP == 60

DAY == 86400

None == "None"

\* a configured "HH:MM" after strptime(report_time, "%H:%M").time()
HM(h, m) == [hour |-> h, minute |-> m]

\* DAILY_REPORT_TIMES: the default of line 43 and the last minute of the day
DAILY_REPORT_TIMES == << HM(17, 30), HM(23, 59) >>

----------------------------------------------------------------------------
(* Bounds of the model *)

\* seconds of wall clock the engine specification runs for after boot
MaxTime == 6

\* longest time, in seconds, one fetch_json call of the monitor takes
MaxFetchDelay == 1

\* seconds of wall clock the alarm specification runs for after boot
AlarmHorizon == 730

\* seconds of wall clock the scheduler specification runs for after boot
SchedHorizon == 86500

\* longest time, in seconds, one iteration of the scheduler takes
MaxSchedDelay == 1

\* entries per section of a document handed to the parser
ParseMaxLen == 2

\* seconds all the tasks run together
TaskHorizon == 2

\* seconds the two loops run together
LiveHorizon == 61

HMS(h, m, s) == h * 3600 + m * 60 + s

\* the clocks at which main() starts the tasks: at noon, and for the scheduler
\* shortly before a configured time and shortly before midnight
EngineBoot == { HMS(12, 0, 0) }

SchedBoot == { HMS(17, 29, 55), HMS(23, 58, 59) }

----------------------------------------------------------------------------
(* Status documents the data source can return *)

DI(n, s) == [name |-> n, status |-> s]

SE(n, s, v, d) == [name |-> n, status |-> s, value |-> v, dim |-> d]

RO(k, n, s) == [keys |-> k, name |-> n, state |-> s]

NoRoutput == RO({}, None, None)

MkDoc(k, di, se, ro) ==
    [keys    |-> k,
     dinputs |-> IF "dinputs" \in k THEN di ELSE << >>,
     sensors |-> IF "sensors" \in k THEN se ELSE << >>,
     routput |-> IF "routput" \in k THEN ro ELSE NoRoutput]

EmptyDoc == MkDoc({}, << >>, << >>, NoRoutput)

A_normal == << DI("A", "normal") >>

A_alarm == << DI("A", "alarm") >>

T_10 == << SE("T", "normal", "10", "C") >>

T_99 == << SE("T", "normal", "99", "C") >>

On == RO({"state"}, None, "on")

Off == RO({"state"}, None, "off")

\* "routput": {"state": null}
NullState == RO({"state"}, None, None)

\* documents with every section, with one or two sections missing, and with none
SectionDocs ==
    { MkDoc({"dinputs", "sensors", "routput"}, A_normal, T_10, Off),
      MkDoc({"dinputs", "sensors", "routput"}, A_normal, T_99, Off),
      MkDoc({"dinputs", "sensors", "routput"}, A_alarm, T_10, Off),
      MkDoc({"dinputs", "routput"}, A_alarm, << >>, On),
      MkDoc({"dinputs", "routput"}, A_normal, << >>, On),
      MkDoc({"sensors", "routput"}, << >>, T_10, On),
      MkDoc({"dinputs", "sensors"}, A_normal, T_10, NoRoutput),
      MkDoc({"dinputs"}, A_alarm, << >>, NoRoutput),
      MkDoc({"routput"}, << >>, << >>, Off),
      EmptyDoc }

\* empty names in both sections, a name shared by both sections and a named
\* output without a state; an output object that is present but empty
EdgeDocs ==
    { MkDoc({"dinputs", "sensors", "routput"},
            << DI("", "alarm"), DI("A", "alarm") >>,
            << SE("", "normal", None, None), SE("A", "normal", "10", None) >>,
            RO({"name"}, "Fan", None)),
      MkDoc({"dinputs", "routput"}, A_alarm, << >>, NoRoutput) }

Docs == SectionDocs \cup EdgeDocs

\* fetch_json returns the decoded body, or None
FetchOk(d) == [status |-> "ok", data |-> d]

FetchFailed == [status |-> "fail", data |-> EmptyDoc]

FetchResults(D) == { FetchOk(d) : d \in D } \cup { FetchFailed }

\* no iteration of monitor_changes is suspended in bot.send_message
NoTick == [data |-> EmptyDoc, cur |-> << >>,
           info |-> [parsed |-> FALSE, name |-> None, state |-> None],
           i |-> 0, j |-> 0, stage |-> "end", sent |-> << >>,
           seen |-> << << >>, None >>, at |-> 0, last |-> 0]

\* `not json_data`: None and the empty object are both falsy
Falsy(r) == r.status = "fail" \/ r.data.keys = {}

----------------------------------------------------------------------------
(* Dicts in insertion order *)

Names(snap) == { snap[i].name : i \in 1..Len(snap) }

Lookup(snap, n) == snap[CHOOSE i \in 1..Len(snap) : snap[i].name = n]

\* d[n] = reading : an existing key keeps its place
Put(snap, reading) ==
    IF reading.name \in Names(snap)
    THEN [i \in 1..Len(snap) |->
            IF snap[i].name = reading.name THEN reading ELSE snap[i]]
    ELSE Append(snap, reading)

EmptyTracker == [n \in {} |-> 0]

TrackerPut(trk, n, t) == [k \in DOMAIN trk \cup {n} |-> IF k = n THEN t ELSE trk[k]]

TrackerDel(trk, n) == [k \in DOMAIN trk \ {n} |-> trk[k]]

Max(a, b) == IF a >= b THEN a ELSE b

----------------------------------------------------------------------------
(* parse_sensors_data, parse_routput_status *)

RECURSIVE ParseDinputs(_, _, _)
ParseDinputs(dinputs, i, parsed) ==
    IF i > Len(dinputs) THEN parsed
    ELSE ParseDinputs(dinputs, i + 1,
            Put(parsed, SE(dinputs[i].name, dinputs[i].status, None, None)))

RECURSIVE ParseSensorList(_, _, _)
ParseSensorList(sensors, i, parsed) ==
    IF i > Len(sensors) THEN parsed
    ELSE ParseSensorList(sensors, i + 1,
            IF sensors[i].name # ""
            THEN Put(parsed, SE(sensors[i].name, sensors[i].status,
                                sensors[i].value, sensors[i].dim))
            ELSE parsed)

\* parse_sensors_data reading the sensors section before the dinputs section
parse_sensors_data_DinputsLast(data) ==
    LET fromSensors == IF "sensors" \in data.keys
                       THEN ParseSensorList(data.sensors, 1, << >>)
                       ELSE << >>
    IN  IF "dinputs" \in data.keys
        THEN ParseDinputs(data.dinputs, 1, fromSensors)
        ELSE fromSensors

parse_sensors_data(data) ==
    LET fromDinputs == IF "dinputs" \in data.keys
                       THEN ParseDinputs(data.dinputs, 1, << >>)
                       ELSE << >>
    IN  IF "sensors" \in data.keys
        THEN ParseSensorList(data.sensors, 1, fromDinputs)
        ELSE fromDinputs

\* the result is None (here: parsed = FALSE) when routput is absent or empty
parse_routput_status(data) ==
    LET routput == IF "routput" \in data.keys THEN data.routput ELSE NoRoutput
    IN  IF routput.keys # {}
        THEN [parsed |-> TRUE,
              name   |-> IF "name" \in routput.keys THEN routput.name ELSE None,
              state  |-> IF "state" \in routput.keys THEN routput.state ELSE "off"]
        ELSE [parsed |-> FALSE, name |-> None, state |-> None]

----------------------------------------------------------------------------
(* monitor_changes: one iteration of the loop body, lines 216-270 *)

SensorAlert(r) == [kind |-> "SensorChanged", name |-> r.name, state |-> r.status,
                   value |-> r.value]

WarningAlert(d) == [kind |-> "AlarmPersisting", name |-> d.name, state |-> d.status,
                    value |-> None]

OutputAlert(n, s) == [kind |-> "OutputChanged", name |-> n, state |-> s, value |-> None]

\* line 225
SensorChanged(prev, r) ==
    r.name \notin Names(prev) \/ Lookup(prev, r.name).status # r.status

\* timedelta.seconds: the seconds of the duration, without its days
TimedeltaSeconds(d) == d % DAY

\* WarningDue without the five-minute minimum of line 248
WarningDue_NoMinimum(duration) ==
    TimedeltaSeconds(duration) % ALARM_REPEAT <= POLL_INTERVAL

\* line 248
WarningDue(duration) ==
    duration >= ALARM_AFTER /\ TimedeltaSeconds(duration) % ALARM_REPEAT <= POLL_INTERVAL

\* lines 238-258: one pass over data['dinputs'] at clock t
RECURSIVE DebounceDinputs(_, _, _, _)
DebounceDinputs(dinputs, j, st, t) ==
    IF j > Len(dinputs) THEN st
    ELSE LET d == dinputs[j]
             next ==
                IF d.status = "alarm"
                THEN IF d.name \notin DOMAIN st.trk
                     THEN [st EXCEPT !.trk = TrackerPut(st.trk, d.name, t)]
                     ELSE IF WarningDue(t - st.trk[d.name])
                          THEN [st EXCEPT !.out = Append(st.out, WarningAlert(d))]
                          ELSE st
                ELSE IF d.name \in DOMAIN st.trk
                     THEN [st EXCEPT !.trk = TrackerDel(st.trk, d.name)]
                     ELSE st
         IN  DebounceDinputs(dinputs, j + 1, next, t)

\* line 237: the pass over the binary inputs
DebouncePass(data, st, t) ==
    IF "dinputs" \in data.keys THEN DebounceDinputs(data.dinputs, 1, st, t) ELSE st

\* lines 223-258: for every reading of the current snapshot, the status
\* comparison and then the pass over the binary inputs
RECURSIVE SensorLoop(_, _, _, _, _, _)
SensorLoop(cur, i, prev, data, st, t) ==
    IF i > Len(cur) THEN st
    ELSE LET compared == IF SensorChanged(prev, cur[i])
                         THEN [st EXCEPT !.out = Append(st.out, SensorAlert(cur[i]))]
                         ELSE st
         IN  SensorLoop(cur, i + 1, prev, data, DebouncePass(data, compared, t), t)

\* OutputLoop sending its alert ahead of the alerts of the readings
OutputLoop_First(prev_state, info, st) ==
    IF prev_state = None \/ prev_state # info.state
    THEN [st EXCEPT !.out = << OutputAlert(info.name, info.state) >> \o @]
    ELSE st

\* lines 261-267
OutputLoop(prev_state, info, st) ==
    IF prev_state = None \/ prev_state # info.state
    THEN [st EXCEPT !.out = Append(st.out, OutputAlert(info.name, info.state))]
    ELSE st

\* lines 216-270 on a decoded document; `raised` is the TypeError of line 218
MonitorBody(data, prev, prev_state, trk, t) ==
    LET cur  == parse_sensors_data(data)
        info == parse_routput_status(data)
        st0  == [trk |-> trk, out |-> << >>]
    IN  IF ~info.parsed
        THEN [raised |-> TRUE, sensors |-> prev, routput |-> prev_state,
              trk |-> trk, out |-> << >>]
        ELSE LET st1 == SensorLoop(cur, 1, prev, data, st0, t)
                 st2 == OutputLoop(prev_state, info, st1)
             IN  [raised |-> FALSE, sensors |-> cur, routput |-> info.state,
                  trk |-> st2.trk, out |-> st2.out]

----------------------------------------------------------------------------
(* Observers of the data source and the notifier *)

\* the status the document reports for binary input n, None when it has none
DinputStatus(data, n) ==
    IF "dinputs" \in data.keys /\ \E j \in 1..Len(data.dinputs) : data.dinputs[j].name = n
    THEN LET last == CHOOSE j \in 1..Len(data.dinputs) :
                        /\ data.dinputs[j].name = n
                        /\ \A k \in (j+1)..Len(data.dinputs) : data.dinputs[k].name # n
         IN  data.dinputs[last].status
    ELSE None

DinputNames(data) ==
    IF "dinputs" \in data.keys
    THEN { data.dinputs[j].name : j \in 1..Len(data.dinputs) }
    ELSE {}

AlarmNames(data) == { n \in DinputNames(data) : DinputStatus(data, n) = "alarm" }

CountAlerts(out, kind, n) ==
    Cardinality({ i \in 1..Len(out) : out[i].kind = kind /\ out[i].name = n })

\* a binary input that a poll saw leave "alarm": its run of alarm observations is over
Over == [state |-> "over", since |-> 0, exact |-> FALSE, warned |-> 0, again |-> FALSE]

Running(rs, n) == n \in DOMAIN rs /\ rs[n].state = "alarm"

\* the runs of alarm observations after a poll at clock t returned `data` and the
\* tick sent `out`: `since` is the clock of the first poll of the run, `exact`
\* says that every poll of the run came POLL_INTERVAL after the one before,
\* `warned` counts the AlarmPersisting messages of the run, `again` says that the
\* run began right after a poll saw the input out of alarm
RunsAfter(old, data, out, t, last) ==
    [n \in (DOMAIN old \cap DinputNames(data)) \cup AlarmNames(data) |->
        IF n \notin AlarmNames(data) THEN Over
        ELSE IF Running(old, n)
        THEN [state  |-> "alarm",
              since  |-> old[n].since,
              exact  |-> old[n].exact /\ t = last + POLL_INTERVAL,
              warned |-> old[n].warned + CountAlerts(out, "AlarmPersisting", n),
              again  |-> old[n].again]
        ELSE [state  |-> "alarm", since |-> t, exact |-> TRUE,
              warned |-> CountAlerts(out, "AlarmPersisting", n),
              again  |-> n \in DOMAIN old]]

\* a poll without a document interrupts the cadence of every run
RunsMissed(old) ==
    [n \in DOMAIN old |-> IF Running(old, n) THEN [old[n] EXCEPT !.exact = FALSE] ELSE old[n]]

\* bot.send_message can fail for any of the messages
SendFailures(out, can_fail) == IF can_fail THEN SUBSET (1..Len(out)) ELSE { {} }

\* Sent without the try/except around each bot.send_message: the first failure
\* ends the sending
Sent_StopAtFailure(out, failed) ==
    LET n == IF failed = {} THEN Len(out)
             ELSE CHOOSE i \in failed : \A k \in failed : i <= k
    IN  [i \in 1..n |-> [alert |-> out[i], ok |-> i \notin failed]]

Sent(out, failed) == [i \in 1..Len(out) |-> [alert |-> out[i], ok |-> i \notin failed]]

----------------------------------------------------------------------------
(* monitor_changes *)

\* MonitorBegin without the test of bot_initialized of line 203
MonitorBegin_NoInitCheck(horizon) ==
    /\ mon_pc = "sleep"
    /\ LET t == Max(now, mon_wake)
       IN  /\ t <= boot + horizon
           /\ now' = t
           /\ mon_pc' = "fetch"
           /\ UNCHANGED mon_wake
    /\ UNCHANGED << boot, previous_sensors_state, previous_routput_state,
                    bot_initialized, dinput_alarm_start_times, start_pc,
                    mon_result, mon_time, alerts, runs >>
    /\ UNCHANGED << tick, schedVars, cmdVars, parseVars >>

\* lines 201-209: the head of an iteration, up to the await of fetch_json
MonitorBegin(horizon) ==
    /\ mon_pc = "sleep"
    /\ LET t == Max(now, mon_wake)
       IN  /\ t <= boot + horizon
           /\ now' = t
           /\ IF ~bot_initialized
              THEN /\ mon_wake' = t + POLL_INTERVAL
                   /\ UNCHANGED mon_pc
              ELSE /\ mon_pc' = "fetch"
                   /\ UNCHANGED mon_wake
    /\ UNCHANGED << boot, previous_sensors_state, previous_routput_state,
                    bot_initialized, dinput_alarm_start_times, start_pc,
                    mon_result, mon_time, alerts, runs >>
    /\ UNCHANGED << tick, schedVars, cmdVars, parseVars >>

\* MonitorPoll forgetting the tracked alarms when fetch_json returns no data
MonitorPoll_ResetOnFail(results, horizon, can_fail) ==
    /\ mon_pc = "fetch"
    /\ \E r \in results, delay \in 0..MaxFetchDelay :
         LET t == now + delay
         IN  /\ t <= boot + horizon
             /\ now' = t
             /\ mon_pc' = "sleep"
             /\ mon_wake' = t + POLL_INTERVAL
             /\ mon_result' = r
             /\ mon_time' = t
             /\ IF Falsy(r)
                THEN /\ alerts' = << >>
                     /\ runs' = RunsMissed(runs)
                     /\ dinput_alarm_start_times' = EmptyTracker
                     /\ UNCHANGED << previous_sensors_state, previous_routput_state >>
                ELSE LET b == MonitorBody(r.data, previous_sensors_state,
                                          previous_routput_state,
                                          dinput_alarm_start_times, t)
                     IN  /\ previous_sensors_state' = b.sensors
                         /\ previous_routput_state' = b.routput
                         /\ dinput_alarm_start_times' = b.trk
                         /\ \E failed \in SendFailures(b.out, can_fail) :
                                alerts' = Sent(b.out, failed)
                         /\ runs' = RunsAfter(runs, r.data, b.out, t, mon_time)
    /\ UNCHANGED << boot, bot_initialized, start_pc >>
    /\ UNCHANGED << tick, schedVars, cmdVars, parseVars >>

\* MonitorPoll without the handler of lines 273-275: the TypeError of line 218
\* ends the task
MonitorPoll_NoHandler(results, horizon, can_fail) ==
    /\ mon_pc = "fetch"
    /\ \E r \in results, delay \in 0..MaxFetchDelay :
         LET t == now + delay
         IN  /\ t <= boot + horizon
             /\ now' = t
             /\ mon_result' = r
             /\ mon_time' = t
             /\ IF Falsy(r)
                THEN /\ mon_pc' = "sleep"
                     /\ mon_wake' = t + POLL_INTERVAL
                     /\ alerts' = << >>
                     /\ runs' = RunsMissed(runs)
                     /\ UNCHANGED << previous_sensors_state, previous_routput_state,
                                     dinput_alarm_start_times >>
                ELSE LET b == MonitorBody(r.data, previous_sensors_state,
                                          previous_routput_state,
                                          dinput_alarm_start_times, t)
                     IN  /\ mon_pc' = IF b.raised THEN "dead" ELSE "sleep"
                         /\ mon_wake' = IF b.raised THEN mon_wake ELSE t + POLL_INTERVAL
                         /\ previous_sensors_state' = b.sensors
                         /\ previous_routput_state' = b.routput
                         /\ dinput_alarm_start_times' = b.trk
                         /\ \E failed \in SendFailures(b.out, can_fail) :
                                alerts' = Sent(b.out, failed)
                         /\ runs' = RunsAfter(runs, r.data, b.out, t, mon_time)
    /\ UNCHANGED << boot, bot_initialized, start_pc >>
    /\ UNCHANGED << tick, schedVars, cmdVars, parseVars >>

\* lines 209-275: fetch_json returns r after `delay` seconds, the rest of the
\* iteration runs and the loop goes to sleep
MonitorPoll(results, horizon, can_fail) ==
    /\ mon_pc = "fetch"
    /\ \E r \in results, delay \in 0..MaxFetchDelay :
         LET t == now + delay
         IN  /\ t <= boot + horizon
             /\ now' = t
             /\ mon_pc' = "sleep"
             /\ mon_wake' = t + POLL_INTERVAL
             /\ mon_result' = r
             /\ mon_time' = t
             /\ IF Falsy(r)
                THEN /\ alerts' = << >>
                     /\ runs' = RunsMissed(runs)
                     /\ UNCHANGED << previous_sensors_state, previous_routput_state,
                                     dinput_alarm_start_times >>
                ELSE LET b == MonitorBody(r.data, previous_sensors_state,
                                          previous_routput_state,
                                          dinput_alarm_start_times, t)
                     IN  /\ previous_sensors_state' = b.sensors
                         /\ previous_routput_state' = b.routput
                         /\ dinput_alarm_start_times' = b.trk
                         /\ \E failed \in SendFailures(b.out, can_fail) :
                                alerts' = Sent(b.out, failed)
                         /\ runs' = RunsAfter(runs, r.data, b.out, t, mon_time)
    /\ UNCHANGED << boot, bot_initialized, start_pc >>
    /\ UNCHANGED << tick, schedVars, cmdVars, parseVars >>

----------------------------------------------------------------------------
(* cmd_start *)

\* lines 313-321: a /start from the configured group, up to the await of fetch_json
StartBegin ==
    /\ start_pc = "idle"
    /\ start_pc' = "fetch"
    /\ UNCHANGED << now, boot, previous_sensors_state, previous_routput_state,
                    bot_initialized, dinput_alarm_start_times, mon_pc, mon_wake,
                    mon_result, mon_time, alerts, runs >>
    /\ UNCHANGED << tick, schedVars, cmdVars, parseVars >>

\* StartFinish setting bot_initialized whatever fetch_json returned
StartFinish_InitAlways(results) ==
    /\ start_pc = "fetch"
    /\ start_pc' = "idle"
    /\ bot_initialized' = TRUE
    /\ \E r \in results :
         IF Falsy(r)
         THEN UNCHANGED << previous_sensors_state, previous_routput_state >>
         ELSE LET info == parse_routput_status(r.data)
              IN  /\ previous_sensors_state' = parse_sensors_data(r.data)
                  /\ previous_routput_state' =
                        IF info.parsed THEN info.state ELSE previous_routput_state
    /\ UNCHANGED << now, boot, dinput_alarm_start_times, mon_pc, mon_wake,
                    mon_result, mon_time, alerts, runs >>
    /\ UNCHANGED << tick, schedVars, cmdVars, parseVars >>

\* lines 321-336: fetch_json returns r; line 325 raises TypeError when
\* parse_routput_status returned None, after line 324 has assigned
StartFinish(results) ==
    /\ start_pc = "fetch"
    /\ start_pc' = "idle"
    /\ \E r \in results :
         IF Falsy(r)
         THEN UNCHANGED << previous_sensors_state, previous_routput_state,
                           bot_initialized >>
         ELSE LET info == parse_routput_status(r.data)
              IN  /\ previous_sensors_state' = parse_sensors_data(r.data)
                  /\ IF info.parsed
                     THEN /\ previous_routput_state' = info.state
                          /\ bot_initialized' = TRUE
                     ELSE UNCHANGED << previous_routput_state, bot_initialized >>
    /\ UNCHANGED << now, boot, dinput_alarm_start_times, mon_pc, mon_wake,
                    mon_result, mon_time, alerts, runs >>
    /\ UNCHANGED << tick, schedVars, cmdVars, parseVars >>

----------------------------------------------------------------------------
(* monitor_changes, with the awaits of bot.send_message as points where other
   tasks run *)

\* lines 223-270 from the position `loc`, up to the next bot.send_message or
\* to the end of the body; the globals are read as the code reads them: the
\* previous snapshot at line 224, the tracker at lines 243-257, the previous
\* output state at line 261
RECURSIVE Advance(_, _, _, _, _)
Advance(loc, prev, prev_state, trk, t) ==
    IF loc.stage = "cmp"
    THEN IF loc.i > Len(loc.cur)
         THEN Advance([loc EXCEPT !.stage = "out"], prev, prev_state, trk, t)
         ELSE IF SensorChanged(prev, loc.cur[loc.i])
              THEN [loc |-> [loc EXCEPT !.stage = "deb", !.j = 1,
                                        !.sent = Append(@, SensorAlert(loc.cur[loc.i]))],
                    trk |-> trk, suspended |-> TRUE]
              ELSE Advance([loc EXCEPT !.stage = "deb", !.j = 1], prev, prev_state, trk, t)
    ELSE IF loc.stage = "deb"
    THEN IF "dinputs" \notin loc.data.keys \/ loc.j > Len(loc.data.dinputs)
         THEN Advance([loc EXCEPT !.stage = "cmp", !.i = @ + 1], prev, prev_state, trk, t)
         ELSE LET d   == loc.data.dinputs[loc.j]
                  nxt == [loc EXCEPT !.j = @ + 1]
              IN  IF d.status = "alarm"
                  THEN IF d.name \notin DOMAIN trk
                       THEN Advance(nxt, prev, prev_state, TrackerPut(trk, d.name, t), t)
                       ELSE IF WarningDue(t - trk[d.name])
                            THEN [loc |-> [nxt EXCEPT !.sent = Append(@, WarningAlert(d))],
                                  trk |-> trk, suspended |-> TRUE]
                            ELSE Advance(nxt, prev, prev_state, trk, t)
                  ELSE IF d.name \in DOMAIN trk
                       THEN Advance(nxt, prev, prev_state, TrackerDel(trk, d.name), t)
                       ELSE Advance(nxt, prev, prev_state, trk, t)
    ELSE IF loc.stage = "out"
    THEN IF prev_state = None \/ prev_state # loc.info.state
         THEN [loc |-> [loc EXCEPT !.stage = "end",
                                   !.sent = Append(@, OutputAlert(loc.info.name, loc.info.state))],
               trk |-> trk, suspended |-> TRUE]
         ELSE Advance([loc EXCEPT !.stage = "end"], prev, prev_state, trk, t)
    ELSE [loc |-> loc, trk |-> trk, suspended |-> FALSE]

\* the iteration is suspended in bot.send_message, or lines 269-272 end it
TickContinue(a, t) ==
    /\ dinput_alarm_start_times' = a.trk
    /\ IF a.suspended
       THEN /\ mon_pc' = "send"
            /\ tick' = a.loc
            /\ UNCHANGED << previous_sensors_state, previous_routput_state,
                            mon_wake, alerts, runs >>
       ELSE /\ mon_pc' = "sleep"
            /\ mon_wake' = t + POLL_INTERVAL
            /\ previous_sensors_state' = a.loc.cur
            /\ previous_routput_state' = a.loc.info.state
            /\ tick' = NoTick
            /\ alerts' = Sent(a.loc.sent, {})
            /\ runs' = RunsAfter(runs, a.loc.data, a.loc.sent, a.loc.at, a.loc.last)

\* lines 209-272: fetch_json returns r after `delay` seconds and the iteration
\* runs to its first bot.send_message, or to its end
TickFetched(results, horizon) ==
    /\ mon_pc = "fetch"
    /\ \E r \in results, delay \in 0..MaxFetchDelay :
         LET t    == now + delay
             info == parse_routput_status(r.data)
         IN  /\ t <= boot + horizon
             /\ now' = t
             /\ mon_result' = r
             /\ mon_time' = t
             /\ IF Falsy(r) \/ ~info.parsed
                THEN /\ mon_pc' = "sleep"
                     /\ mon_wake' = t + POLL_INTERVAL
                     /\ alerts' = << >>
                     /\ runs' = IF Falsy(r) THEN RunsMissed(runs)
                                ELSE RunsAfter(runs, r.data, << >>, t, mon_time)
                     /\ UNCHANGED << previous_sensors_state, previous_routput_state,
                                     dinput_alarm_start_times, tick >>
                ELSE TickContinue(
                        Advance([data |-> r.data, cur |-> parse_sensors_data(r.data),
                                 info |-> info, i |-> 1, j |-> 0, stage |-> "cmp",
                                 sent |-> << >>,
                                 seen |-> << previous_sensors_state, previous_routput_state >>,
                                 at |-> t, last |-> mon_time],
                                previous_sensors_state, previous_routput_state,
                                dinput_alarm_start_times, t),
                        t)
    /\ UNCHANGED << boot, bot_initialized, start_pc >>
    /\ UNCHANGED << schedVars, cmdVars, parseVars >>

\* bot.send_message returns, or raises into the except next to it, after
\* `delay` seconds and the iteration goes on
TickResume(horizon) ==
    /\ mon_pc = "send"
    /\ \E delay \in 0..MaxFetchDelay :
         LET t == now + delay
         IN  /\ t <= boot + horizon
             /\ now' = t
             /\ TickContinue(Advance(tick, previous_sensors_state, previous_routput_state,
                                     dinput_alarm_start_times, t), t)
    /\ UNCHANGED << boot, bot_initialized, start_pc, mon_result, mon_time >>
    /\ UNCHANGED << schedVars, cmdVars, parseVars >>

----------------------------------------------------------------------------
(* cmd_get_info, cmd_get_camera, cmd_camera *)

\* lines 343-348: a /get_info from the configured group, up to the await of fetch_json
GetInfoBegin ==
    /\ info_pc = "idle"
    /\ info_pc' = "fetch"
    /\ UNCHANGED received
    /\ UNCHANGED << now, boot, info_reply, cam_pc, img_file >>
    /\ UNCHANGED << monitorVars, schedVars, parseVars >>

\* GetInfoFetched storing the fetched snapshot as cmd_start does
GetInfoFetched_Storing(results) ==
    /\ info_pc = "fetch"
    /\ info_pc' = "reply"
    /\ \E r \in results :
         /\ info_reply' = IF Falsy(r) THEN "no_data"
                          ELSE IF parse_routput_status(r.data).parsed THEN "status"
                          ELSE "error"
         /\ previous_sensors_state' =
               IF Falsy(r) THEN previous_sensors_state ELSE parse_sensors_data(r.data)
    /\ UNCHANGED received
    /\ UNCHANGED << now, boot, cam_pc, img_file >>
    /\ UNCHANGED << previous_routput_state, bot_initialized, dinput_alarm_start_times,
                    mon_pc, mon_wake, start_pc, tick, mon_result, mon_time, alerts, runs >>
    /\ UNCHANGED << schedVars, parseVars >>

\* lines 348-371: fetch_json returns r; line 364 raises AttributeError when
\* parse_routput_status returned None; every path ends in a reply
GetInfoFetched(results) ==
    /\ info_pc = "fetch"
    /\ info_pc' = "reply"
    /\ \E r \in results :
         info_reply' = IF Falsy(r) THEN "no_data"
                       ELSE IF parse_routput_status(r.data).parsed THEN "status"
                       ELSE "error"
    /\ UNCHANGED received
    /\ UNCHANGED << now, boot, cam_pc, img_file >>
    /\ UNCHANGED << monitorVars, schedVars, parseVars >>

\* message.reply returns
GetInfoReplied ==
    /\ info_pc = "reply"
    /\ info_pc' = "idle"
    /\ info_reply' = "none"
    /\ UNCHANGED received
    /\ UNCHANGED << now, boot, cam_pc, img_file >>
    /\ UNCHANGED << monitorVars, schedVars, parseVars >>

\* lines 378-390, 403-450: the old image is removed, the snapshot is requested
\* and, when it arrived, written to img/img.jpeg; then a photo or a reply is sent
CameraBegin ==
    /\ cam_pc = "idle"
    /\ cam_pc' = "send"
    /\ \E arrived \in BOOLEAN : img_file' = arrived
    /\ UNCHANGED received
    /\ UNCHANGED << now, boot, info_pc, info_reply >>
    /\ UNCHANGED << monitorVars, schedVars, parseVars >>

\* bot.send_photo or the reply returns
CameraFinish ==
    /\ cam_pc = "send"
    /\ cam_pc' = "idle"
    /\ UNCHANGED received
    /\ UNCHANGED << now, boot, info_pc, info_reply, img_file >>
    /\ UNCHANGED << monitorVars, schedVars, parseVars >>

----------------------------------------------------------------------------
(* The handlers as the dispatcher calls them, with the chat of the message *)

\* line 28: the configured group
TELEGRAM_GROUP_ID == 1

\* message.chat.id of a message from another chat
OtherChat == 2

\* no message has carried the command
NoChat == 0

Chats == { TELEGRAM_GROUP_ID, OtherChat }

Commands == { "start", "get_info", "get_cam" }

\* a message with command c arrived from `chat`
Receive(c, chat) == received' = [received EXCEPT ![c] = chat]

\* StartFrom without the test of message.chat.id of line 314
StartFrom_AnyChat(chat) ==
    /\ start_pc = "idle"
    /\ Receive("start", chat)
    /\ start_pc' = "fetch"
    /\ UNCHANGED << now, boot, previous_sensors_state, previous_routput_state,
                    bot_initialized, dinput_alarm_start_times, mon_pc, mon_wake,
                    tick, mon_result, mon_time, alerts, runs >>
    /\ UNCHANGED << info_pc, info_reply, cam_pc, img_file >>
    /\ UNCHANGED << schedVars, parseVars >>

\* lines 313-321: cmd_start on a message from `chat`, up to its return or to
\* the await of fetch_json
StartFrom(chat) ==
    /\ chat = TELEGRAM_GROUP_ID => start_pc = "idle"
    /\ Receive("start", chat)
    /\ start_pc' = IF chat # TELEGRAM_GROUP_ID THEN start_pc ELSE "fetch"
    /\ UNCHANGED << now, boot, previous_sensors_state, previous_routput_state,
                    bot_initialized, dinput_alarm_start_times, mon_pc, mon_wake,
                    tick, mon_result, mon_time, alerts, runs >>
    /\ UNCHANGED << info_pc, info_reply, cam_pc, img_file >>
    /\ UNCHANGED << schedVars, parseVars >>

\* lines 343-348: cmd_get_info on a message from `chat`, up to its return or
\* to the await of fetch_json
GetInfoFrom(chat) ==
    /\ chat = TELEGRAM_GROUP_ID => info_pc = "idle"
    /\ Receive("get_info", chat)
    /\ info_pc' = IF chat # TELEGRAM_GROUP_ID THEN info_pc ELSE "fetch"
    /\ UNCHANGED << now, boot, info_reply, cam_pc, img_file >>
    /\ UNCHANGED << monitorVars, schedVars, parseVars >>

\* lines 378-390, 403-450: cmd_get_camera on a message from `chat`, up to its
\* return or to the await of bot.send_photo or of the reply
GetCameraFrom(chat) ==
    /\ chat = TELEGRAM_GROUP_ID => cam_pc = "idle"
    /\ Receive("get_cam", chat)
    /\ IF chat # TELEGRAM_GROUP_ID
       THEN UNCHANGED << cam_pc, img_file >>
       ELSE /\ cam_pc' = "send"
            /\ \E arrived \in BOOLEAN : img_file' = arrived
    /\ UNCHANGED << now, boot, info_pc, info_reply >>
    /\ UNCHANGED << monitorVars, schedVars, parseVars >>

----------------------------------------------------------------------------
(* send_daily_report, scheduler *)

ReportTimes == { DAILY_REPORT_TIMES[i] : i \in 1..Len(DAILY_REPORT_TIMES) }

DayOf(t) == t \div DAY

\* now.hour, now.minute, and the seconds of the day
SecondOfDay(t) == t % DAY

Hour(t) == SecondOfDay(t) \div 3600

Minute(t) == (SecondOfDay(t) % 3600) \div 60

\* line 466: now >= datetime.combine(now.date(), target_time), both read as
\* wall-clock times of the configured timezone
ReportDue(t, T) == SecondOfDay(t) >= HMS(T.hour, T.minute, 0)

\* send_daily_report, lines 175-194: what became of the report.  Line 189 raises
\* AttributeError when parse_routput_status returned None
send_daily_report(r, send_ok) ==
    IF Falsy(r) THEN "no_data"
    ELSE IF ~parse_routput_status(r.data).parsed THEN "not_built"
    ELSE IF send_ok THEN "sent" ELSE "send_failed"

\* the places of DAILY_REPORT_TIMES that fire at clock t (line 466)
Firing(t, flags) ==
    { i \in 1..Len(DAILY_REPORT_TIMES) :
        ReportDue(t, DAILY_REPORT_TIMES[i]) /\ ~flags[DAILY_REPORT_TIMES[i]] }

\* lines 461-469: the configured times in order, at clock t; what[i] is what
\* became of send_daily_report when time i fires
RECURSIVE ReportLoop(_, _, _, _)
ReportLoop(i, st, t, what) ==
    IF i > Len(DAILY_REPORT_TIMES) THEN st
    ELSE LET T == DAILY_REPORT_TIMES[i]
         IN  IF ReportDue(t, T) /\ ~st.flags[T]
             THEN ReportLoop(i + 1,
                    [flags |-> [st.flags EXCEPT ![T] = TRUE],
                     calls |-> [st.calls EXCEPT ![T] =
                                  IF @.day = DayOf(t)
                                  THEN [@ EXCEPT !.count = @ + 1]
                                  ELSE [day |-> DayOf(t), count |-> 1]],
                     delivered |-> [st.delivered EXCEPT ![T] = (what[i] = "sent")]],
                    t, what)
             ELSE ReportLoop(i + 1, st, t, what)

\* line 471
ResetDue(t) == Hour(t) = 0 /\ Minute(t) = 0

\* lines 471-473
ResetFlags(st, t) ==
    IF ResetDue(t)
    THEN [st EXCEPT !.flags = [T \in ReportTimes |-> FALSE],
                    !.delivered = [T \in ReportTimes |-> FALSE]]
    ELSE st

\* lines 459-475: one iteration of the scheduler.  It reads the clock `delay`
\* seconds after the sleep ended (the time the iteration before it took), runs
\* the report loop and the reset, and sleeps
SchedulerIteration(results, horizon) ==
    /\ \E delay \in 0..MaxSchedDelay :
         LET t == Max(now, sched_wake) + delay
         IN  /\ t <= boot + horizon
             /\ now' = t
             /\ sched_wake' = t + SCHED_SLEEP
             /\ \E what \in [Firing(t, report_sent_status) ->
                              { send_daily_report(r, ok) : r \in results, ok \in BOOLEAN }] :
                  LET st0 == [flags |-> report_sent_status, calls |-> reports.calls,
                              delivered |-> reports.delivered]
                      st1 == ResetFlags(ReportLoop(1, st0, t, what), t)
                  IN  /\ report_sent_status' = st1.flags
                      /\ reports' = [at |-> t, calls |-> st1.calls,
                                     delivered |-> st1.delivered]
    /\ UNCHANGED << boot >>
    /\ UNCHANGED << monitorVars, cmdVars, parseVars >>

----------------------------------------------------------------------------
(* Specifications *)

\* the module-level state when main() has created the two tasks
InitWith(bootTimes, sensors, routput, initialized) ==
    /\ parse_in = EmptyDoc
    /\ parse_out = << >>
    /\ parse_done = FALSE
    /\ boot \in bootTimes
    /\ now = boot
    /\ previous_sensors_state = sensors
    /\ previous_routput_state = routput
    /\ bot_initialized = initialized
    /\ report_sent_status = [T \in ReportTimes |-> FALSE]
    /\ dinput_alarm_start_times = EmptyTracker
    /\ mon_pc = "sleep"
    /\ mon_wake = boot
    /\ start_pc = "idle"
    /\ sched_wake = boot
    /\ tick = NoTick
    /\ info_pc = "idle"
    /\ info_reply = "none"
    /\ cam_pc = "idle"
    /\ img_file = FALSE
    /\ received = [c \in Commands |-> NoChat]
    /\ mon_result = FetchFailed
    /\ mon_time = boot
    /\ alerts = << >>
    /\ runs = EmptyTracker
    /\ reports = [at |-> boot,
                  calls |-> [T \in ReportTimes |-> [day |-> 0 - 1, count |-> 0]],
                  delivered |-> [T \in ReportTimes |-> FALSE]]

\* lines 75-79
Init == InitWith(EngineBoot, << >>, None, FALSE)

\* the engine: the monitoring loop and /start, over every document
Next ==
    \/ MonitorBegin(MaxTime)
    \/ MonitorPoll(FetchResults(Docs), MaxTime, FALSE)
    \/ StartBegin
    \/ StartFinish(FetchResults(Docs))

Spec == Init /\ [][Next]_vars

\* documents in which binary input A is in alarm and the output is present
AlarmDocs ==
    { MkDoc({"dinputs", "routput"}, A_alarm, << >>, On),
      MkDoc({"dinputs", "sensors", "routput"}, A_alarm, T_10, On) }

\* the monitoring loop over a data source that holds A in alarm and always answers
NextAlarm ==
    \/ MonitorBegin(AlarmHorizon)
    \/ MonitorPoll({ FetchOk(d) : d \in AlarmDocs }, AlarmHorizon, FALSE)

\* the state after a /start at boot was answered with one of these documents
InitAlarm ==
    \E d \in AlarmDocs :
        InitWith(EngineBoot, parse_sensors_data(d), parse_routput_status(d).state, TRUE)

SpecAlarm == InitAlarm /\ [][NextAlarm]_vars

\* documents whose ticks send up to three alerts, and one without routput
SendDocs ==
    { MkDoc({"dinputs", "sensors", "routput"}, A_normal, T_10, On),
      MkDoc({"dinputs", "sensors", "routput"}, A_alarm, T_10, Off),
      MkDoc({"dinputs", "routput"}, A_alarm, << >>, Off),
      MkDoc({"dinputs", "sensors"}, A_normal, T_10, NoRoutput) }

\* the engine with a notifier that can fail on any message
NextSend ==
    \/ MonitorBegin(MaxTime)
    \/ MonitorPoll(FetchResults(SendDocs), MaxTime, TRUE)
    \/ StartBegin
    \/ StartFinish(FetchResults(SendDocs))

SpecSend == Init /\ [][NextSend]_vars

\* the two loops of an Active engine around a report time; the event loop
\* runs every task that is ready, every fetch and every sleep ends
LiveBoot == { HMS(17, 29, 55) }

LiveDocs ==
    { MkDoc({"dinputs", "routput"}, A_normal, << >>, On),
      MkDoc({"dinputs"}, A_normal, << >>, NoRoutput) }

NextLive ==
    \/ MonitorBegin(LiveHorizon)
    \/ MonitorPoll(FetchResults(LiveDocs), LiveHorizon, TRUE)
    \/ SchedulerIteration(FetchResults(LiveDocs), LiveHorizon)

InitLive == InitWith(LiveBoot, << >>, "off", TRUE)

SpecLive ==
    /\ InitLive
    /\ [][NextLive]_vars
    /\ WF_vars(MonitorBegin(LiveHorizon))
    /\ WF_vars(MonitorPoll(FetchResults(LiveDocs), LiveHorizon, TRUE))
    /\ WF_vars(SchedulerIteration(FetchResults(LiveDocs), LiveHorizon))

\* parse_sensors_data on its own, over every document with up to ParseMaxLen
\* entries per section, names that are empty or shared by both sections included
DinputEntries == { DI(n, st) : n \in {"", "A", "B"}, st \in {"normal", "alarm"} }

SensorEntries ==
    { SE(n, "normal", "10", "C") : n \in {"", "A", "T"} }
        \cup { SE(n, "high", None, None) : n \in {"", "A", "T"} }

SeqsUpTo(S, n) == UNION { [1..k -> S] : k \in 0..n }

ParseDocs ==
    { MkDoc(k, di, se, NoRoutput) :
        k \in SUBSET {"dinputs", "sensors"},
        di \in SeqsUpTo(DinputEntries, ParseMaxLen),
        se \in SeqsUpTo(SensorEntries, ParseMaxLen) }

\* lines 136-156: a call of parse_sensors_data
ParseCall(docs) ==
    /\ ~parse_done
    /\ \E d \in docs :
         /\ parse_in' = d
         /\ parse_out' = parse_sensors_data(d)
    /\ parse_done' = TRUE
    /\ UNCHANGED << now, boot >>
    /\ UNCHANGED << monitorVars, schedVars, cmdVars >>

NextParse == ParseCall(ParseDocs)

SpecParse == Init /\ [][NextParse]_vars

\* every task of the process, around a report time
TaskBoot == { HMS(17, 29, 59) }

TaskDocs ==
    { MkDoc({"dinputs", "routput"}, A_normal, << >>, Off),
      MkDoc({"dinputs", "sensors", "routput"}, A_alarm, T_10, On) }

\* what the command handlers can fetch: also a document without routput
CommandDocs == TaskDocs \cup { MkDoc({"dinputs"}, A_alarm, << >>, NoRoutput) }

NextTasks ==
    \/ MonitorBegin(TaskHorizon)
    \/ TickFetched(FetchResults(TaskDocs), TaskHorizon)
    \/ TickResume(TaskHorizon)
    \/ StartBegin
    \/ StartFinish(FetchResults(CommandDocs))
    \/ GetInfoBegin
    \/ GetInfoFetched(FetchResults(CommandDocs))
    \/ GetInfoReplied
    \/ CameraBegin
    \/ CameraFinish
    \/ SchedulerIteration(FetchResults(TaskDocs), TaskHorizon)

InitTasks == InitWith(TaskBoot, << >>, None, FALSE)

SpecTasks == InitTasks /\ [][NextTasks]_vars

SchedDocs ==
    { MkDoc({"dinputs", "routput"}, A_normal, << >>, On),
      MkDoc({"dinputs"}, A_normal, << >>, NoRoutput) }

\* the scheduler alone, over more than a day
NextSched == SchedulerIteration(FetchResults(SchedDocs), SchedHorizon)

InitSched == InitWith(SchedBoot, << >>, None, FALSE)

SpecSched == InitSched /\ [][NextSched]_vars

\* the output section as the data source can send it: a state, a null
\* state, or no section
OutputDocs ==
    { MkDoc({"dinputs", "routput"}, A_normal, << >>, On),
      MkDoc({"dinputs", "routput"}, A_normal, << >>, Off),
      MkDoc({"dinputs", "routput"}, A_normal, << >>, NullState),
      MkDoc({"dinputs"}, A_normal, << >>, NoRoutput) }

\* the engine over these documents
NextOutput ==
    \/ MonitorBegin(MaxTime)
    \/ MonitorPoll(FetchResults(OutputDocs), MaxTime, FALSE)
    \/ StartBegin
    \/ StartFinish(FetchResults(OutputDocs))

SpecOutput == Init /\ [][NextOutput]_vars

\* the command handlers called with messages from the group and from another
\* chat, next to the monitoring loop
NextChats ==
    \/ \E chat \in Chats : StartFrom(chat)
    \/ StartFinish(FetchResults(CommandDocs))
    \/ \E chat \in Chats : GetInfoFrom(chat)
    \/ GetInfoFetched(FetchResults(CommandDocs))
    \/ GetInfoReplied
    \/ \E chat \in Chats : GetCameraFrom(chat)
    \/ CameraFinish
    \/ MonitorBegin(TaskHorizon)
    \/ MonitorPoll(FetchResults(TaskDocs), TaskHorizon, FALSE)

SpecChats == InitTasks /\ [][NextChats]_vars

----------------------------------------------------------------------------
(* Properties *)

\* a step in which monitor_changes ends an iteration that fetched
PollStep == mon_pc = "fetch" /\ mon_pc' = "sleep"

\* a step of monitor_changes
MonitorStep == << mon_pc, mon_wake >>' # << mon_pc, mon_wake >>

\* a step in which the scheduler evaluates
SchedulerStep == sched_wake' # sched_wake

CountSent(sent, kind, n) ==
    Cardinality({ i \in 1..Len(sent) : sent[i].alert.kind = kind /\ sent[i].alert.name = n })

CountKind(sent, kind) ==
    Cardinality({ i \in 1..Len(sent) : sent[i].alert.kind = kind })

\* C1: an input that every poll reports as "alarm", polled every POLL_INTERVAL
\* seconds, has received exactly one AlarmPersisting warning per completed
\* 5-minute window of its alarm: two after 12 minutes, never one per poll.
C1_OneWarningPerWindow ==
    \A n \in DOMAIN runs :
        (Running(runs, n) /\ runs[n].exact)
            => runs[n].warned = (mon_time - runs[n].since) \div ALARM_REPEAT

\* the scheduler has been running on day d since before T
RunningBefore(T, d) ==
    \/ DayOf(boot) < d
    \/ DayOf(boot) = d /\ SecondOfDay(boot) < HMS(T.hour, T.minute, 0)

\* C2: on every day the scheduler runs from before T, the report for T is
\* dispatched exactly once, at the first evaluation whose local time is >= T:
\* after an evaluation at or after T it has been dispatched once that day, and
\* when the day is over it was dispatched on it.
C2_ExactlyOncePerDay ==
    \A T \in ReportTimes :
        LET d == DayOf(reports.at)
        IN  /\ (RunningBefore(T, d) /\ ReportDue(reports.at, T))
                  => (reports.calls[T].day = d /\ reports.calls[T].count = 1)
            /\ (RunningBefore(T, d) /\ reports.calls[T].day = d)
                  => reports.calls[T].count = 1
            /\ (d > DayOf(boot) /\ RunningBefore(T, d - 1))
                  => reports.calls[T].day >= d - 1

\* C3: day rollover: at an evaluation at or after T on a day later than the one
\* on which the report for T last fired, the flag of T has been reset to false,
\* so the report fires again.
C3_DayRollover ==
    [][ \A T \in ReportTimes :
          (/\ SchedulerStep
           /\ reports.calls[T].day >= 0
           /\ DayOf(reports'.at) > reports.calls[T].day
           /\ ReportDue(reports'.at, T))
              => (~report_sent_status[T] /\ reports'.calls[T].day = DayOf(reports'.at))
      ]_vars

\* C4: between scheduler iterations the flag of T is true if and only if a
\* report message for T has been handed to the notifier since the last reset.
C4_FlagIffDispatched ==
    \A T \in ReportTimes : report_sent_status[T] = reports.delivered[T]

\* C5: while bot_initialized is false, a step of the monitoring loop sends no
\* alert and leaves previous_sensors_state, previous_routput_state and
\* dinput_alarm_start_times unchanged.
C5_UninitializedIdle ==
    [][ (~bot_initialized /\ MonitorStep)
            => /\ alerts' = << >>
               /\ UNCHANGED << previous_sensors_state, previous_routput_state,
                               dinput_alarm_start_times, bot_initialized >>
      ]_vars

\* two iterations of the monitoring loop have passed while Uninitialized
C5_Witness ==
    ~bot_initialized /\ mon_pc = "sleep" /\ mon_wake = boot + 2 * POLL_INTERVAL

\* C6: in an Active tick whose fetch returned a document, a reading N of the
\* snapshot gets exactly one SensorChanged alert if N is absent from the
\* previous snapshot or its status differs from the previous one, and none
\* otherwise.
C6_TransitionOnly ==
    [][ (PollStep /\ ~Falsy(mon_result'))
            => LET cur == parse_sensors_data(mon_result'.data)
               IN  \A n \in Names(cur) :
                     CountSent(alerts', "SensorChanged", n) =
                        IF \/ n \notin Names(previous_sensors_state)
                           \/ Lookup(previous_sensors_state, n).status # Lookup(cur, n).status
                        THEN 1 ELSE 0
      ]_vars

\* C7: an Active poll of a document without a routput key sends no
\* OutputChanged alert and is otherwise processed normally (the readings of the
\* document become the previous state); the poll after it, when it returns
\* routput.state = "on", sends exactly one OutputChanged alert.
C7_OutputAbsence ==
    [][ /\ (PollStep /\ ~Falsy(mon_result')
                     /\ "routput" \notin mon_result'.data.keys)
            => /\ CountKind(alerts', "OutputChanged") = 0
               /\ previous_sensors_state' = parse_sensors_data(mon_result'.data)
        /\ (PollStep /\ ~Falsy(mon_result)
                     /\ "routput" \notin mon_result.data.keys
                     /\ ~Falsy(mon_result')
                     /\ "routput" \in mon_result'.data.keys
                     /\ mon_result'.data.routput.keys = {"state"}
                     /\ mon_result'.data.routput.state = "on")
            => CountKind(alerts', "OutputChanged") = 1
      ]_vars

\* C8: an Active tick whose fetch returned a document ends with the stored
\* previous state equal to the snapshot parsed from the document, whatever
\* sections it has.
C8_SnapshotReplaced ==
    [][ (PollStep /\ ~Falsy(mon_result'))
            => /\ previous_sensors_state' = parse_sensors_data(mon_result'.data)
               /\ previous_routput_state' = parse_routput_status(mon_result'.data).state
      ]_vars

\* C9: alarm reset: after a poll that observes out of alarm an input that was in
\* alarm, the input has no tracker entry; after the polls of an alarm that
\* began right after such a poll, its entry holds the time of the poll that
\* first observed the new alarm.
C9_AlarmReset ==
    \A n \in DOMAIN runs :
        /\ (runs[n].state = "over" /\ ~Falsy(mon_result)
                /\ DinputStatus(mon_result.data, n) \notin {"alarm", None})
              => n \notin DOMAIN dinput_alarm_start_times
        /\ (Running(runs, n) /\ runs[n].again)
              => /\ n \in DOMAIN dinput_alarm_start_times
                 /\ dinput_alarm_start_times[n] = runs[n].since

\* C10: after an Active tick that fetched a document and ran to its end, an
\* input has a tracker entry if and only if the document reports it in alarm,
\* and the entry holds the time of the first poll of the current run of alarm
\* observations.
C10_TrackerInvariant ==
    (/\ mon_pc = "sleep"
     /\ ~Falsy(mon_result)
     /\ parse_routput_status(mon_result.data).parsed)
        => \A n \in DOMAIN dinput_alarm_start_times \cup DinputNames(mon_result.data) :
             /\ n \in DOMAIN dinput_alarm_start_times
                    <=> DinputStatus(mon_result.data, n) = "alarm"
             /\ n \in DOMAIN dinput_alarm_start_times
                    => /\ Running(runs, n)
                       /\ dinput_alarm_start_times[n] = runs[n].since

\* C11: an Active tick whose fetch returned no data sends no alert, leaves
\* previous_sensors_state, previous_routput_state, dinput_alarm_start_times
\* and bot_initialized unchanged, and sleeps POLL_INTERVAL before the next tick.
C11_FailedFetchSkipped ==
    [][ (PollStep /\ mon_result'.status = "fail")
            => /\ alerts' = << >>
               /\ UNCHANGED << previous_sensors_state, previous_routput_state,
                               dinput_alarm_start_times, bot_initialized >>
               /\ mon_wake' = now' + POLL_INTERVAL
      ]_vars

\* an Active tick failed to fetch while a snapshot and an alarm were stored
C11_Witness ==
    /\ bot_initialized
    /\ mon_pc = "sleep"
    /\ mon_result.status = "fail"
    /\ mon_time > boot
    /\ previous_sensors_state # << >>
    /\ dinput_alarm_start_times # EmptyTracker

\* some message of the tick was not accepted by the notifier
SomeSendFailed(sent) == \E i \in 1..Len(sent) : ~sent[i].ok

\* C12: in an Active tick in which the sending of some alert failed, every
\* change alert of the tick was still attempted (one SensorChanged per reading
\* that is new or changed its status, one OutputChanged when the output state
\* is new or changed, none otherwise: nothing is re-sent for a change of an earlier
\* tick) and the previous state was replaced by the snapshot of the tick.
C12_SendFailureAbsorbed ==
    [][ (PollStep /\ SomeSendFailed(alerts'))
            => LET cur  == parse_sensors_data(mon_result'.data)
                   info == parse_routput_status(mon_result'.data)
               IN  /\ \A n \in Names(cur) :
                         CountSent(alerts', "SensorChanged", n) =
                            IF SensorChanged(previous_sensors_state, Lookup(cur, n))
                            THEN 1 ELSE 0
                   /\ CountKind(alerts', "OutputChanged") =
                         IF previous_routput_state \in {None} \/ previous_routput_state # info.state
                         THEN 1 ELSE 0
                   /\ previous_sensors_state' = cur
                   /\ previous_routput_state' = info.state
      ]_vars

\* the first of three alerts of a tick failed and the two after it were sent
C12_Witness ==
    /\ mon_pc = "sleep"
    /\ Len(alerts) = 3
    /\ ~alerts[1].ok /\ alerts[2].ok /\ alerts[3].ok
    /\ previous_sensors_state = parse_sensors_data(mon_result.data)

\* no time is left for another iteration of monitor_changes
MonitorEnd == Max(now, mon_wake) > boot + LiveHorizon

\* no time is left for another iteration of scheduler
SchedEnd == Max(now, sched_wake) > boot + LiveHorizon

\* C13: neither loop ends on an error: whatever its iterations raised, each
\* loop goes on sleeping and iterating until no time is left for another
\* iteration, and monitor_changes is then asleep.
C13_LoopsKeepIterating ==
    /\ <>[](mon_pc = "sleep" /\ MonitorEnd)
    /\ <>[]SchedEnd

\* monitor_changes fetches again after an iteration that raised, and scheduler
\* sleeps again after its second evaluation, whose report was not delivered
C13_Witness ==
    /\ mon_pc = "fetch"
    /\ ~Falsy(mon_result)
    /\ ~parse_routput_status(mon_result.data).parsed
    /\ sched_wake >= boot + 2 * SCHED_SLEEP
    /\ \E T \in ReportTimes : report_sent_status[T] /\ ~reports.delivered[T]

\* a step in which cmd_start takes up the result of its fetch
StartStep == start_pc = "fetch" /\ start_pc' = "idle"

\* C14: bot_initialized becomes true only in the step in which cmd_start takes
\* up a fetched document that parses, and in that step the previous sensor
\* state and the previous output state are set from that document; no step of
\* another task sets it.
C14_OnlyStartInitializes ==
    [][ (~bot_initialized /\ bot_initialized')
            => /\ StartStep
               /\ \E r \in FetchResults(CommandDocs) :
                     /\ ~Falsy(r)
                     /\ parse_routput_status(r.data).parsed
                     /\ previous_sensors_state' = parse_sensors_data(r.data)
                     /\ previous_routput_state' = parse_routput_status(r.data).state
      ]_vars

\* the engine is Active after a /start, a /get_info and a camera command were
\* handled and the scheduler dispatched a report
C14_Witness ==
    /\ bot_initialized
    /\ previous_sensors_state # << >>
    /\ info_reply = "status"
    /\ img_file
    /\ \E T \in ReportTimes : report_sent_status[T]

\* a step of cmd_get_info
GetInfoStep == info_pc' # info_pc

\* C15: a step of cmd_get_info, whatever it fetched and whatever the other
\* tasks are doing, leaves previous_sensors_state, previous_routput_state,
\* bot_initialized, dinput_alarm_start_times and report_sent_status unchanged.
C15_GetInfoFrame ==
    [][ GetInfoStep
            => UNCHANGED << previous_sensors_state, previous_routput_state,
                            bot_initialized, dinput_alarm_start_times,
                            report_sent_status >>
      ]_vars

\* cmd_get_info replied with a status while a monitoring iteration was
\* suspended in bot.send_message and a /start was awaiting its fetch
C15_Witness ==
    /\ info_pc = "reply"
    /\ info_reply = "status"
    /\ mon_pc = "send"
    /\ start_pc = "fetch"
    /\ previous_sensors_state # << >>

\* C16: the compare-and-replace of an iteration is serialized with cmd_start:
\* while an iteration is suspended in bot.send_message no step changes the
\* previous state, and the previous state the iteration replaces at its end
\* is the one it began to compare with.
C16_TickSerialized ==
    [][ /\ (mon_pc = "send" /\ mon_pc' = "send")
            => UNCHANGED << previous_sensors_state, previous_routput_state >>
        /\ (mon_pc = "send" /\ mon_pc' = "sleep")
            => << previous_sensors_state, previous_routput_state >> = tick.seen
      ]_vars

\* the names of the entries of a section
SectionNames(entries) == { entries[i].name : i \in 1..Len(entries) }

\* the last entry of a section with name n
LastNamed(entries, n) ==
    entries[CHOOSE i \in 1..Len(entries) :
                /\ entries[i].name = n
                /\ \A k \in (i + 1)..Len(entries) : entries[k].name # n]

\* C17: for every document, also one without dinputs or without sensors,
\* parse_sensors_data returns one reading per non-empty name of the sections
\* that are present and nothing else under a non-empty name; the reading of a
\* name comes from the sensors section when that section has the name, and
\* from the dinputs section otherwise.
C17_ParseSections ==
    parse_done =>
        LET dn == SectionNames(parse_in.dinputs)
            sn == SectionNames(parse_in.sensors)
        IN  /\ Names(parse_out) \ {""} = (dn \cup sn) \ {""}
            /\ Len(parse_out) = Cardinality(Names(parse_out))
            /\ \A n \in Names(parse_out) \ {""} :
                  Lookup(parse_out, n) =
                     IF n \in sn
                     THEN LastNamed(parse_in.sensors, n)
                     ELSE SE(n, LastNamed(parse_in.dinputs, n).status, None, None)

\* the parser was given a document in which input A and sensor A share the
\* name, and returned the sensor's reading for it
C17_Witness ==
    /\ parse_done
    /\ "A" \in SectionNames(parse_in.dinputs) \cap SectionNames(parse_in.sensors)
    /\ Lookup(parse_out, "A").value = "10"

\* C18: no parsed snapshot has a reading whose name is the empty string.
C18_NoEmptyName ==
    parse_done => "" \notin Names(parse_out)

\* C19: in one tick at most one AlarmPersisting warning is sent per binary
\* input, however many readings the snapshot has.
C19_OneWarningPerTick ==
    \A n \in DinputNames(mon_result.data) : CountSent(alerts, "AlarmPersisting", n) <= 1

\* the place of the reading named n in a snapshot
PlaceOf(snap, n) == CHOOSE i \in 1..Len(snap) : snap[i].name = n

\* C20: the SensorChanged alerts of a tick are sent in the order of the
\* readings in the tick's snapshot, and its OutputChanged alert after all of
\* them.
C20_AlertOrder ==
    LET cur == parse_sensors_data(mon_result.data)
    IN  \A i, j \in 1..Len(alerts) :
          (i < j /\ alerts[j].alert.kind = "SensorChanged")
             => /\ alerts[i].alert.kind # "OutputChanged"
                /\ alerts[i].alert.kind = "SensorChanged"
                      => PlaceOf(cur, alerts[i].alert.name) < PlaceOf(cur, alerts[j].alert.name)

\* a tick sent two SensorChanged alerts and an OutputChanged alert
C20_Witness ==
    /\ Len(alerts) = 3
    /\ alerts[1].alert.kind = "SensorChanged"
    /\ alerts[2].alert.kind = "SensorChanged"
    /\ alerts[3].alert.kind = "OutputChanged"

C22_ActiveHasOutput ==
    [][/\ bot_initialized => bot_initialized'
       /\ bot_initialized' => previous_routput_state' # None
       /\ mon_pc' = "fetch" => previous_routput_state' # None]_vars

\* C23: a /start that does not reach Active, because its fetch failed or the
\* parsing of its document raised, leaves previous_sensors_state,
\* previous_routput_state and bot_initialized unchanged.
C23_FailedStartFrame ==
    [][(start_pc = "fetch" /\ start_pc' = "idle" /\ ~bot_initialized') =>
          UNCHANGED << previous_sensors_state, previous_routput_state,
                       bot_initialized >>]_vars

\* a step in which a handler takes up command c from a chat other than the
\* configured group
Unauthorized(c) == received'[c] # received[c] /\ received'[c] # TELEGRAM_GROUP_ID

\* C24: a /start, /get_info or /get_cam from a chat other than the configured
\* group starts no fetch, sends no reply and changes no engine state: the
\* engine stays Uninitialized if it was, and no handler leaves its position.
C24_UnauthorizedIgnored ==
    [][(\E c \in Commands : Unauthorized(c)) =>
          /\ UNCHANGED << previous_sensors_state, previous_routput_state,
                          bot_initialized, dinput_alarm_start_times,
                          report_sent_status >>
          /\ UNCHANGED << start_pc, info_pc, cam_pc, info_reply, img_file >>
          /\ UNCHANGED << mon_pc, alerts, reports >>]_vars

\* the three commands each came last from the other chat and the engine is
\* Uninitialized, with no handler awaiting a fetch or a reply
C24_Witness ==
    /\ \A c \in Commands : received[c] = OtherChat
    /\ ~bot_initialized
    /\ previous_sensors_state = << >>
    /\ start_pc = "idle" /\ info_pc = "idle" /\ cam_pc = "idle"

====
